---- MODULE Spec2Model ----
(***************************************************************************)
(* A model of glances/core/glances_processes.py: the process tree          *)
(* (ProcessTreeNode) and the per-cycle collector (GlancesProcesses).       *)
(*                                                                         *)
(* Python values are modelled as follows.  A dict is a function whose      *)
(* DOMAIN is its key set; d.update(e) is e @@ d.  A psutil.Process handle  *)
(* is its pid.  A ProcessTreeNode object is named by the pid it owns, the  *)
(* synthetic root by ROOT; a tree is a function from node names to node    *)
(* records.  None is the number None where a node or a number is expected, *)
(* NoneStr where a string is expected.  A Python string is the sequence of *)
(* its characters, so that join, match and slicing are computed.           *)
(***************************************************************************)
EXTENDS Integers, Sequences, FiniteSets, TLC

(* ------------------------------ bounds -------------------------------- *)
\* pids the OS can hold at once
MaxPid == 3

Pids == 1..MaxPid

(* ----------------------- Python values and helpers -------------------- *)
\* name of the synthetic root node (ProcessTreeNode(root=True))
ROOT == 0
\* Python None where a process handle, a node or a number is expected
None == -1
\* Python None where a string is expected (no string of characters equals it)
NoneStr == <<"None">>
\* ad_value / failure marker of a numeric psutil field
NoValue == -3
\* process.parent() raising psutil.NoSuchProcess
RaisesNoSuchProcess == -2

Range(s) == {s[i] : i \in DOMAIN s}

\* all orderings of a finite set, as sequences without repetition
Perms(S) == {s \in [1..Cardinality(S) -> S] : Range(s) = S}

EmptyDict == [k \in {} |-> 0]

VARIABLES
    \* ---- the OS collaborator (psutil) and the platform ----
    os_parent,          \* result of Process.parent() per pid
    os_live,            \* the pids in the OS process table
    inputs,             \* the results each psutil accessor can give, and the
                        \* values the setters can be called with
    platform,           \* "linux", "bsd", "mac" or "windows"
    PROCESS_TREE,       \* the module-level switch between tree and flat mode
    \* ---- the timer collaborator ----
    cache_timer,        \* time since cache_timer was reset, up to cache_timeout
    \* ---- GlancesProcesses fields ----
    username_cache, cmdline_cache, io_old,
    processlist, processcount,
    disable_tag, disable_extended_tag, max_processes,
    process_filter, process_filter_re, no_kernel_threads,
    process_tree, processmanualsort, processautosort,
    \* ---- the running handler ----
    pc,                 \* position of the running handler
    exc,                \* exception the last handler call ended with, or "none"
    caller,             \* who called buildTree: "direct" or "update"
    \* ---- locals of update() ----
    time_since_update, procs, processdict, tree_iter, yielded, processloop, first,
    \* ---- locals of buildTree() ----
    sort_key_arg,       \* argument sort_key
    first_pass,         \* items of process_dict.items() not yet iterated
    tree_nodes,         \* node objects created by this build (tree_root and the rest)
    nodes_to_add_last,  \* the deque of deferred nodes
    passes,             \* the pass buildTree is in (0: the first), how many deferred
                        \* nodes it has still to take, pid -> the pass that attached it
    \* ---- a direct caller of buildTree keeping the previous result ----
    has_prev,           \* a previous build of the same records has returned
    prev_edges,         \* (parent, child) pairs of that previous tree
    \* ---- observation of the OS collaborator's calls ----
    cmdline_calls,      \* pid -> proc.cmdline() calls since the last cache clear
    cmdline_fetched,    \* pid -> what that call gave
    cmdline_hits,       \* pids whose command line came from the cache since then
    username_lookup,    \* the last username lookup: pid, fresh fetch or not, ...
    expired_usernames,  \* pids cached when cache_timer elapsed, not looked up since
    cleared_usernames,  \* pids dropped by a cache clear, not looked up since
    io_last,            \* pid -> what its last successful proc.io_counters() gave
    collect_obs,        \* the last loop iteration of update(): the OS answers to it
    last_setsorting,    \* the last setSorting call since update(): its node and arguments
    last_sort           \* the last getsortlist call since update(): its argument, whether
                        \* the call before had the same one, whether it moved a record

env_vars == <<os_parent, inputs, platform, PROCESS_TREE>>
timer_vars == <<cache_timer>>
cache_vars == <<username_cache, cmdline_cache, io_old>>
config_vars == <<disable_tag, disable_extended_tag, max_processes, process_filter,
                 process_filter_re, no_kernel_threads, processmanualsort,
                 processautosort>>
result_vars == <<processlist, processcount, process_tree>>
update_vars == <<time_since_update, procs, tree_iter, yielded, processloop, first>>
build_vars == <<sort_key_arg, first_pass, tree_nodes, nodes_to_add_last, passes>>
prev_vars == <<has_prev, prev_edges>>
cache_obs_vars == <<cmdline_calls, cmdline_fetched, cmdline_hits, username_lookup,
                    expired_usernames, cleared_usernames>>
obs_vars == <<cache_obs_vars, io_last, collect_obs, last_sort, last_setsorting>>
vars == <<env_vars, os_live, timer_vars, cache_vars, config_vars, result_vars, pc, exc, caller,
          update_vars, processdict, build_vars, prev_vars, obs_vars>>

(* --------------------------- ProcessTreeNode -------------------------- *)
\* ProcessTreeNode.__init__
NewNode(process, stats, sort_key, root) ==
    [process |-> process, stats |-> stats, children |-> <<>>,
     children_sorted |-> FALSE, sort_key |-> sort_key,
     reverse_sorting |-> TRUE, is_root |-> root]

\* ProcessTreeNode.findProcess: depth-first search from node n for the node
\* owning pid; None when the search falls through
RECURSIVE findProcess(_, _, _)
RECURSIVE findProcessIn(_, _, _)
findProcess(nodes, n, pid) ==
    IF (~nodes[n].is_root) /\ nodes[n].process = pid
    THEN n
    ELSE findProcessIn(nodes, nodes[n].children, pid)

\* the "for child in self.children" loop of findProcess
findProcessIn(nodes, cs, pid) ==
    IF cs = <<>> THEN None
    ELSE LET node == findProcess(nodes, Head(cs), pid)
         IN  IF node # None THEN node
             ELSE findProcessIn(nodes, Tail(cs), pid)

\* parent_node.children.append(child)
AppendChild(nodes, parent, child) ==
    [nodes EXCEPT ![parent].children = Append(@, child)]

\* FirstPassStep with a deferred node also hung below the root
FirstPassStep_DeferAndAttach(nodes, queue, p, stats, sort_key, parent_process) ==
    LET withNew == nodes @@ (p :> NewNode(p, stats, sort_key, FALSE))
    IN  IF parent_process \in {None, RaisesNoSuchProcess}
        THEN [nodes |-> AppendChild(withNew, ROOT, p), queue |-> queue]
        ELSE LET parent_node == findProcess(nodes, ROOT, parent_process)
             IN  IF parent_node # None
                 THEN [nodes |-> AppendChild(withNew, parent_node, p), queue |-> queue]
                 ELSE [nodes |-> AppendChild(withNew, ROOT, p), queue |-> Append(queue, p)]

\* FirstPassStep with no deferral: a node whose parent is not in the tree yet
\* goes to the top level
FirstPassStep_NoDefer(nodes, queue, p, stats, sort_key, parent_process) ==
    LET withNew == nodes @@ (p :> NewNode(p, stats, sort_key, FALSE))
    IN  IF parent_process \in {None, RaisesNoSuchProcess}
        THEN [nodes |-> AppendChild(withNew, ROOT, p), queue |-> queue]
        ELSE LET parent_node == findProcess(nodes, ROOT, parent_process)
             IN  IF parent_node # None
                 THEN [nodes |-> AppendChild(withNew, parent_node, p), queue |-> queue]
                 ELSE [nodes |-> AppendChild(withNew, ROOT, p), queue |-> queue]

\* One iteration of the first-pass loop of buildTree for record p: the new
\* node is attached at top level, attached to its parent, or deferred.
FirstPassStep(nodes, queue, p, stats, sort_key, parent_process) ==
    LET withNew == nodes @@ (p :> NewNode(p, stats, sort_key, FALSE))
    IN  IF parent_process \in {None, RaisesNoSuchProcess}
        THEN [nodes |-> AppendChild(withNew, ROOT, p), queue |-> queue]
        ELSE LET parent_node == findProcess(nodes, ROOT, parent_process)
             IN  IF parent_node # None
                 THEN [nodes |-> AppendChild(withNew, parent_node, p), queue |-> queue]
                 ELSE [nodes |-> withNew, queue |-> Append(queue, p)]

\* NextPassStep hanging every deferred node below the root without looking
\* for its parent
NextPassStep_TopLevel(nodes, queue, parent_process) ==
    [nodes |-> AppendChild(nodes, ROOT, Head(queue)), queue |-> Tail(queue),
     raised |-> FALSE]

\* NextPassStep putting a node whose parent is not in the tree back at the
\* head of the deque
NextPassStep_RequeueFirst(nodes, queue, parent_process) ==
    LET node_to_add == Head(queue)
        rest == Tail(queue)
    IN  IF parent_process = RaisesNoSuchProcess
        THEN [nodes |-> AppendChild(nodes, ROOT, node_to_add), queue |-> rest,
              raised |-> FALSE]
        ELSE IF parent_process = None /\ nodes[ROOT].children # <<>>
        THEN [nodes |-> nodes, queue |-> rest, raised |-> TRUE]
        ELSE LET parent_node == findProcess(nodes, ROOT, parent_process)
             IN  IF parent_node # None
                 THEN [nodes |-> AppendChild(nodes, parent_node, node_to_add),
                       queue |-> rest, raised |-> FALSE]
                 ELSE [nodes |-> nodes, queue |-> <<node_to_add>> \o rest,
                       raised |-> FALSE]

\* One iteration of the "while nodes_to_add_last" loop of buildTree.
\* parent() returning None reaches findProcess(None), which reads None.pid
\* as soon as the walk meets a non-root node: raised |-> TRUE.
NextPassStep(nodes, queue, parent_process) ==
    LET node_to_add == Head(queue)
        rest == Tail(queue)
    IN  IF parent_process = RaisesNoSuchProcess
        THEN [nodes |-> AppendChild(nodes, ROOT, node_to_add), queue |-> rest,
              raised |-> FALSE]
        ELSE IF parent_process = None /\ nodes[ROOT].children # <<>>
        THEN [nodes |-> nodes, queue |-> rest, raised |-> TRUE]
        ELSE LET parent_node == findProcess(nodes, ROOT, parent_process)
             IN  IF parent_node # None
                 THEN [nodes |-> AppendChild(nodes, parent_node, node_to_add),
                       queue |-> rest, raised |-> FALSE]
                 ELSE [nodes |-> nodes, queue |-> Append(rest, node_to_add),
                       raised |-> FALSE]
(* ------------------------- strings and regexps ------------------------ *)
\* ' '.join(argv)
RECURSIVE JoinSpace(_)
JoinSpace(argv) ==
    IF argv = <<>> THEN <<>>
    ELSE IF Len(argv) = 1 THEN Head(argv)
    ELSE Head(argv) \o <<" ">> \o JoinSpace(Tail(argv))

\* characters that make a pattern more than a literal
MetaChars == {"(", ")", "[", "]", "*", "+", "?", ".", "\\", "|", "^", "$", "{", "}"}

\* re.compile(value): a pattern of plain characters compiles to itself; a
\* pattern holding an unbalanced "(" raises re.error (the result is NoneStr).
\* Patterns with other metacharacters are outside the modelled inputs.
re_compile(value) ==
    IF \A i \in DOMAIN value : value[i] \notin MetaChars THEN value ELSE NoneStr

\* compiled.match(value) is not None, for a compiled literal: value starts with it
re_match(compiled, value) ==
    /\ Len(compiled) <= Len(value)
    /\ SubSeq(value, 1, Len(compiled)) = compiled

\* str(status)[:1].upper()
UpperChar(c) ==
    CASE c = "r" -> "R" [] c = "s" -> "S" [] c = "z" -> "Z" [] c = "d" -> "D"
      [] c = "i" -> "I" [] c = "t" -> "T" [] OTHER -> c

FirstUpper(status) ==
    IF status = <<>> THEN <<>> ELSE <<UpperChar(status[1])>>

\* psutil status strings
STATUS_RUNNING == <<"r","u","n","n","i","n","g">>
STATUS_SLEEPING == <<"s","l","e","e","p","i","n","g">>
STATUS_ZOMBIE == <<"z","o","m","b","i","e">>
STATUS_STOPPED == <<"s","t","o","p","p","e","d">>
\* keys of processcount that are not status strings
KEY_TOTAL == <<"t","o","t","a","l">>
KEY_THREAD == <<"t","h","r","e","a","d">>
\* proc.status() raising psutil.NoSuchProcess
StatusGone == <<"NoSuchProcess">>

\* process names the collector knows, and others
NAME_IDLE == <<"i","d","l","e">>
NAME_SYSTEM_IDLE == <<"S","y","s","t","e","m"," ","I","d","l","e"," ","P","r","o","c","e","s","s">>
NAME_KERNEL_TASK == <<"k","e","r","n","e","l","_","t","a","s","k">>
NAME_SH == <<"s","h">>
NAME_TOP == <<"t","o","p">>
UNKNOWN_USER == <<"?">>

(* ------------------------- platform (glances_globals) ----------------- *)
is_linux == platform = "linux"
is_bsd == platform = "bsd"
is_mac == platform = "mac"
is_windows == platform = "windows"

(* ------------------------- timer (glances_timer) ---------------------- *)
\* GlancesProcesses.__init__(cache_timeout=...): the interval of cache_timer
cache_timeout == 2
\* Timer.finished(): the configured interval has elapsed since the last reset
TimerFinished(elapsed) == elapsed >= cache_timeout
\* Timer.reset()
TimerReset == 0

(* --------------------------- GlancesProcesses ------------------------- *)
\* the processcount dict update() starts from
ZeroCount ==
    (KEY_TOTAL :> 0) @@ (STATUS_RUNNING :> 0) @@ (STATUS_SLEEPING :> 0) @@ (KEY_THREAD :> 0)

\* set_process_filter: the (process_filter, process_filter_re) pair it leaves
set_process_filter(value) ==
    [process_filter |-> value,
     process_filter_re |-> IF value # NoneStr THEN re_compile(value) ELSE NoneStr]

\* is_filtered(value): "True", "False", or "AttributeError" when .match is
\* called on a process_filter_re that is None
is_filtered(filter, filter_re, value) ==
    IF filter = NoneStr THEN "False"
    ELSE IF filter_re = NoneStr THEN "AttributeError"
    ELSE IF re_match(filter_re, value) THEN "False" ELSE "True"

\* a resolution that prefers the automatic key
getsortkey_AutoFirst(manual, auto) == IF auto # "None" THEN auto ELSE manual

\* getsortkey()
getsortkey(manual, auto) == IF manual # "None" THEN manual ELSE auto

\* a lookup that asks the OS every time, cached or not
CmdlineLookup_Refetch(cache, pid, o) ==
    [cache |-> (pid :> (IF o.ok THEN JoinSpace(o.argv) ELSE <<>>)) @@
               [q \in DOMAIN cache \ {pid} |-> cache[q]],
     called |-> TRUE]

\* __get_process_stats, the command line (cached with internal cache)
CmdlineLookup(cache, pid, o) ==
    IF pid \in DOMAIN cache
    THEN [cache |-> cache, called |-> FALSE]
    ELSE [cache |-> (pid :> (IF o.ok THEN JoinSpace(o.argv) ELSE <<>>)) @@ cache,
          called |-> TRUE]

\* a failed read that stores zeros as the previous values
IoCounters_ZeroOnFailure(old, pid, o) ==
    IF ~o.ok
    THEN [io_counters |-> <<0, 0, 0, 0, 0>>,
          io_old |-> (pid :> <<0, 0>>) @@ [q \in DOMAIN old \ {pid} |-> old[q]]]
    ELSE [io_counters |-> <<o.read_bytes, o.write_bytes>>
                              \o (IF pid \in DOMAIN old THEN old[pid] ELSE <<0, 0>>) \o <<1>>,
          io_old |-> (pid :> <<o.read_bytes, o.write_bytes>>) @@
                     [q \in DOMAIN old \ {pid} |-> old[q]]]

\* __get_process_stats, the process IO: the io_counters list and io_old
IoCounters(old, pid, o) ==
    IF ~o.ok
    THEN [io_counters |-> <<0, 0, 0, 0, 0>>, io_old |-> old]
    ELSE LET io_new == <<o.read_bytes, o.write_bytes>>
         IN  [io_counters |-> io_new \o (IF pid \in DOMAIN old THEN old[pid] ELSE <<0, 0>>)
                                  \o <<1>>,
              io_old |-> (pid :> io_new) @@ [q \in DOMAIN old \ {pid} |-> old[q]]]

\* __get_process_stats, the username (cached with internal cache).  o.kind is
\* what proc.username() does, o.uid what proc.uids() does after it.
UsernameLookup(cache, pid, o) ==
    IF pid \in DOMAIN cache
    THEN [cache |-> cache, called |-> FALSE, raised |-> "none"]
    ELSE IF o.kind = "ok"
    THEN [cache |-> (pid :> o.name) @@ cache, called |-> TRUE, raised |-> "none"]
    ELSE IF o.kind = "NoSuchProcess"
    THEN [cache |-> (pid :> UNKNOWN_USER) @@ cache, called |-> TRUE, raised |-> "none"]
    ELSE \* KeyError or AccessDenied: fall back to the real uid
         IF o.uid = "ok"
         THEN [cache |-> (pid :> o.real) @@ cache, called |-> TRUE, raised |-> "none"]
         ELSE IF o.uid = "AccessDenied"
         THEN [cache |-> (pid :> UNKNOWN_USER) @@ cache, called |-> TRUE, raised |-> "none"]
         ELSE [cache |-> cache, called |-> TRUE, raised |-> "NoSuchProcess"]

\* a test that only sees a vanished process, not a missing value
MandatoryFailed_OnlyGone(basic) == basic.gone

\* __get_process_stats, "Process CPU, MEM percent and name": as_dict raised
\* NoSuchProcess, or cpu_percent or memory_percent is ''
MandatoryFailed(basic) ==
    basic.gone \/ basic.cpu_percent = NoValue \/ basic.memory_percent = NoValue

\* The None that __get_process_stats returns (a procstat always holds "pid")
NoStats == EmptyDict

\* __get_process_stats(proc, mandatory_stats, standard_stats, extended_stats)
\* with o the results of the psutil calls it makes.  Gives the returned
\* procstat (or NoStats), the three maps as it leaves them, which OS calls
\* it made, and the exception it ends with, if any.
get_process_stats(proc, mandatory_stats, standard_stats, extended_stats, o, ucache, ccache, old, no_extended, mac) ==
    LET ps0 == ("pid" :> proc)
        dropped == mandatory_stats /\ MandatoryFailed(o.basic)
        cl == CmdlineLookup(ccache, proc, o.cmdline)
        io == IoCounters(old, proc, o.io)
        ps1 == IF ~mandatory_stats THEN ps0
               ELSE LET m == ("cmdline" :> cl.cache[proc]) @@
                             ("name" :> o.basic.name) @@
                             ("memory_percent" :> o.basic.memory_percent) @@
                             ("cpu_percent" :> o.basic.cpu_percent) @@
                             ("mandatory_stats" :> TRUE) @@ ps0
                    IN  IF mac THEN m ELSE ("io_counters" :> io.io_counters) @@ m
        ccache1 == IF mandatory_stats THEN cl.cache ELSE ccache
        old1 == IF mandatory_stats /\ ~mac THEN io.io_old ELSE old
        ul == UsernameLookup(ucache, proc, o.username)
        ps2 == IF ~standard_stats THEN ps1
               ELSE LET u == ("username" :> ul.cache[proc]) @@
                             ("standard_stats" :> TRUE) @@ ps1
                    IN  IF o.std.gone THEN u
                        ELSE ("status" :> FirstUpper(o.std.status)) @@
                             ("nice" :> 0) @@ ("memory_info" :> "memory_info") @@
                             ("cpu_times" :> "cpu_times") @@ u
        ps3 == IF extended_stats /\ ~no_extended
               THEN ("extended_stats" :> TRUE) @@ ps2
               ELSE ps2
    IN  IF dropped
        THEN [ret |-> NoStats, username_cache |-> ucache, cmdline_cache |-> ccache,
              io_old |-> old, cmdline_looked |-> FALSE, cmdline_called |-> FALSE,
              username_looked |-> FALSE, username_called |-> FALSE, raised |-> "none"]
        ELSE IF standard_stats /\ ul.raised # "none"
        THEN [ret |-> NoStats, username_cache |-> ucache, cmdline_cache |-> ccache1,
              io_old |-> old1, cmdline_looked |-> mandatory_stats,
              cmdline_called |-> mandatory_stats /\ cl.called,
              username_looked |-> TRUE, username_called |-> TRUE, raised |-> ul.raised]
        ELSE [ret |-> ps3,
              username_cache |-> IF standard_stats THEN ul.cache ELSE ucache,
              cmdline_cache |-> ccache1, io_old |-> old1,
              cmdline_looked |-> mandatory_stats,
              cmdline_called |-> mandatory_stats /\ cl.called,
              username_looked |-> standard_stats,
              username_called |-> standard_stats /\ ul.called,
              raised |-> "none"]
\* update(), the global statistics of one retained process: s1 is what the
\* first proc.status() gives, s2 what the one in the KeyError handler gives
CountProcess(count, s1, s2) ==
    IF s1 = StatusGone THEN count
    ELSE IF s1 \in DOMAIN count
    THEN LET c1 == [count EXCEPT ![s1] = @ + 1]
         IN  [c1 EXCEPT ![KEY_TOTAL] = @ + 1]
    ELSE IF s2 = StatusGone THEN count
    ELSE (s2 :> 1) @@ [k \in DOMAIN count \ {s2} |-> count[k]]

\* update(), the thread number: n is proc.num_threads(), NoValue when it raises
AddThreads(count, n) ==
    IF n = NoValue THEN count ELSE [count EXCEPT ![KEY_THREAD] = @ + n]

\* the idle process of BSD and Windows, the kernel_task of OS X
IsIdleProcess(name) ==
    \/ is_bsd /\ name = NAME_IDLE
    \/ is_windows /\ name = NAME_SYSTEM_IDLE
    \/ is_mac /\ name = NAME_KERNEL_TASK

\* One iteration of the "for proc in psutil.process_iter()" loop of update()
\* once r is what __get_process_stats gave: the dict, the counters and the
\* maps as the iteration leaves them, and the exception that ends update()
\* in it, if any.
collect_after(proc, o, r) ==
    LET base == [processdict |-> processdict, processcount |-> processcount,
                 username_cache |-> r.username_cache, cmdline_cache |-> r.cmdline_cache,
                 io_old |-> r.io_old, raised |-> "none",
                 cmdline_looked |-> r.cmdline_looked,
                 cmdline_called |-> r.cmdline_called,
                 username_looked |-> r.username_looked,
                 username_called |-> r.username_called]
    IN  IF r.raised # "none" THEN [base EXCEPT !.raised = r.raised]
        ELSE IF r.ret = NoStats THEN base
        ELSE IF is_filtered(process_filter, process_filter_re, r.ret["cmdline"])
                  = "AttributeError"
        THEN [base EXCEPT !.raised = "AttributeError"]
        ELSE IF /\ is_filtered(process_filter, process_filter_re, r.ret["cmdline"]) = "True"
                /\ is_filtered(process_filter, process_filter_re, r.ret["name"]) = "True"
        THEN base
        ELSE IF IsIdleProcess(r.ret["name"])
        THEN [base EXCEPT !.processdict = (proc :> r.ret) @@ processdict]
        ELSE [base EXCEPT !.processdict = (proc :> r.ret) @@ processdict,
                          !.processcount =
                              AddThreads(CountProcess(processcount, o.status1, o.status2),
                                         o.threads)]

\* One iteration of the "for proc in psutil.process_iter()" loop of update()
collect_one(proc, o) ==
    IF no_kernel_threads /\ (~is_windows) /\ o.gid \in {0, RaisesNoSuchProcess}
    THEN [processdict |-> processdict, processcount |-> processcount,
          username_cache |-> username_cache, cmdline_cache |-> cmdline_cache,
          io_old |-> io_old,
          raised |-> IF o.gid = 0 THEN "none" ELSE "NoSuchProcess",
          cmdline_looked |-> FALSE, cmdline_called |-> FALSE,
          username_looked |-> FALSE, username_called |-> FALSE]
    ELSE collect_after(proc, o,
                       get_process_stats(proc, TRUE, max_processes = None, FALSE, o,
                                         username_cache, cmdline_cache, io_old,
                                         disable_extended_tag, is_mac))

\* a clean that keeps the usernames
clean_caches_KeepUsernames(ucache, ccache, old, timer) ==
    IF TimerFinished(timer)
    THEN [username_cache |-> ucache, cmdline_cache |-> EmptyDict, io_old |-> old,
          cache_timer |-> TimerReset]
    ELSE [username_cache |-> ucache, cmdline_cache |-> ccache, io_old |-> old,
          cache_timer |-> timer]

\* a clean that empties the previous I/O counters too
clean_caches_AllThree(ucache, ccache, old, timer) ==
    IF TimerFinished(timer)
    THEN [username_cache |-> EmptyDict, cmdline_cache |-> EmptyDict, io_old |-> EmptyDict,
          cache_timer |-> TimerReset]
    ELSE [username_cache |-> ucache, cmdline_cache |-> ccache, io_old |-> old,
          cache_timer |-> timer]

\* update(), "Clean internals caches if timeout is reached"
clean_caches(ucache, ccache, old, timer) ==
    IF TimerFinished(timer)
    THEN [username_cache |-> EmptyDict, cmdline_cache |-> EmptyDict, io_old |-> old,
          cache_timer |-> TimerReset]
    ELSE [username_cache |-> ucache, cmdline_cache |-> ccache, io_old |-> old,
          cache_timer |-> timer]

(* --------------------- sorting and iterating a tree ------------------- *)
\* sys.maxsize
maxsize == 2147483647

\* sort keys whose values getRessourceUsage can add to 0
SummableKeys == {"cpu_percent", "memory_percent"}

RECURSIVE SubtreeUsage(_, _, _)
RECURSIVE SubtreeUsageOf(_, _, _)
RECURSIVE SumStats(_, _, _)
\* "total += current_node.stats[key]" for each node of cs
SumStats(nodes, cs, key) ==
    IF cs = <<>> THEN 0
    ELSE nodes[Head(cs)].stats[key] + SumStats(nodes, Tail(cs), key)

\* a usage that adds the node's children and nothing below them
SubtreeUsage_ChildrenOnly(nodes, n, key) ==
    nodes[n].stats[key] + SumStats(nodes, nodes[n].children, key)

\* ProcessTreeNode.getRessourceUsage for a non-root node: the sum of
\* stats[key] over the node and every node below it
SubtreeUsage(nodes, n, key) ==
    nodes[n].stats[key] + SubtreeUsageOf(nodes, nodes[n].children, key)

SubtreeUsageOf(nodes, cs, key) ==
    IF cs = <<>> THEN 0
    ELSE SubtreeUsage(nodes, Head(cs), key) + SubtreeUsageOf(nodes, Tail(cs), key)

getRessourceUsage(nodes, n) ==
    IF nodes[n].is_root THEN maxsize ELSE SubtreeUsage(nodes, n, nodes[n].sort_key)

RECURSIVE InsertByKey(_, _, _, _)
RECURSIVE InsertByKey_BeforeEquals(_, _, _, _)
\* a sort that puts a record before the records of equal key
InsertByKey_BeforeEquals(sorted, x, key, reverse) ==
    IF sorted = <<>> THEN <<x>>
    ELSE IF (reverse /\ key[Head(sorted)] > key[x]) \/ (~reverse /\ key[Head(sorted)] < key[x])
    THEN <<Head(sorted)>> \o InsertByKey_BeforeEquals(Tail(sorted), x, key, reverse)
    ELSE <<x>> \o sorted

\* list.sort(key=..., reverse=...): stable, equal keys keep their order
InsertByKey(sorted, x, key, reverse) ==
    IF sorted = <<>> THEN <<x>>
    ELSE IF (reverse /\ key[Head(sorted)] >= key[x]) \/ (~reverse /\ key[Head(sorted)] <= key[x])
    THEN <<Head(sorted)>> \o InsertByKey(Tail(sorted), x, key, reverse)
    ELSE <<x>> \o sorted

RECURSIVE SortByKey(_, _, _)
SortByKey(s, key, reverse) ==
    IF s = <<>> THEN <<>>
    ELSE InsertByKey(SortByKey(SubSeq(s, 1, Len(s) - 1), key, reverse), s[Len(s)], key, reverse)

\* a setSorting that marks the children stale whatever the pair
setSorting_AlwaysStale(nodes, n, key, reverse) ==
    [nodes EXCEPT ![n].children_sorted = FALSE,
                  ![n].sort_key = key,
                  ![n].reverse_sorting = reverse]

\* ProcessTreeNode.setSorting(key, reverse) on node n
setSorting(nodes, n, key, reverse) ==
    [nodes EXCEPT ![n].children_sorted =
                      IF (nodes[n].sort_key # key) \/ (nodes[n].reverse_sorting # reverse)
                      THEN FALSE ELSE @,
                  ![n].sort_key = key,
                  ![n].reverse_sorting = reverse]

\* ProcessTreeNode.__iter__, the lazy sort of node n's children
SortChildren(nodes, n) ==
    IF nodes[n].children_sorted THEN nodes
    ELSE LET usage == [c \in Range(nodes[n].children) |-> getRessourceUsage(nodes, c)]
         IN  [nodes EXCEPT ![n].children = SortByKey(@, usage, nodes[n].reverse_sorting),
                           ![n].children_sorted = TRUE]

\* the key function raises TypeError when a child's sort key is not a number
SortRaises(nodes, n) ==
    /\ ~nodes[n].children_sorted
    /\ \E c \in Range(nodes[n].children) : nodes[c].sort_key \notin SummableKeys

\* a number that orders strings of up to width lower-case letters as Python
\* orders them: by ord() of the first character that differs, a proper
\* prefix first
RECURSIVE LexKey(_, _)
LexKey(str, width) ==
    LET ord(c) ==
            96 + CHOOSE i \in 1..26 :
                     <<"a", "b", "c", "d", "e", "f", "g", "h", "i", "j", "k", "l", "m", "n",
                       "o", "p", "q", "r", "s", "t", "u", "v", "w", "x", "y", "z">>[i] = c
    IN  IF width = 0 THEN 0
        ELSE IF str = <<>> THEN 0
        ELSE ord(Head(str)) * 128^(width - 1) + LexKey(Tail(str), width - 1)

\* getsortlist, the value of the key function for a record
SortValue(process, sortedby) ==
    IF sortedby = "io_counters"
    THEN process[sortedby][1] - process[sortedby][3] + process[sortedby][2]
           - process[sortedby][4]
    ELSE IF sortedby = "name" THEN LexKey(process[sortedby], 4)
    ELSE process[sortedby]

\* a getsortlist that sorts names in descending order too
getsortlist_AlwaysDescending(list, sortedby) ==
    IF sortedby = "None" THEN [list |-> list, raised |-> "none"]
    ELSE IF sortedby = "io_counters" /\ \E i \in 1..Len(list) : sortedby \notin DOMAIN list[i]
    THEN [list |-> SortByKey(list, [q \in Range(list) |-> q["cpu_percent"]], TRUE),
          raised |-> "none"]
    ELSE IF \E i \in 1..Len(list) : sortedby \notin DOMAIN list[i]
    THEN [list |-> list, raised |-> "KeyError"]
    ELSE [list |-> SortByKey(list, [q \in Range(list) |-> SortValue(q, sortedby)], TRUE),
          raised |-> "none"]

\* a getsortlist that returns the list as it is when the I/O sort fails
getsortlist_FallbackUnsorted(list, sortedby) ==
    IF sortedby = "None" THEN [list |-> list, raised |-> "none"]
    ELSE IF sortedby = "io_counters" /\ \E i \in 1..Len(list) : sortedby \notin DOMAIN list[i]
    THEN [list |-> list, raised |-> "none"]
    ELSE IF \E i \in 1..Len(list) : sortedby \notin DOMAIN list[i]
    THEN [list |-> list, raised |-> "KeyError"]
    ELSE [list |-> SortByKey(list, [q \in Range(list) |-> SortValue(q, sortedby)],
                             sortedby # "name"),
          raised |-> "none"]

\* GlancesProcesses.getsortlist(sortedby) on the stored list: the list it
\* stores and returns, or the exception of a key that a record does not have
getsortlist(list, sortedby) ==
    IF sortedby = "None" THEN [list |-> list, raised |-> "none"]
    ELSE IF sortedby = "io_counters" /\ \E i \in 1..Len(list) : sortedby \notin DOMAIN list[i]
    THEN [list |-> SortByKey(list, [q \in Range(list) |-> q["cpu_percent"]],
                             sortedby # "name"),
          raised |-> "none"]
    ELSE IF \E i \in 1..Len(list) : sortedby \notin DOMAIN list[i]
    THEN [list |-> list, raised |-> "KeyError"]
    ELSE [list |-> SortByKey(list, [q \in Range(list) |-> SortValue(q, sortedby)],
                             sortedby # "name"),
          raised |-> "none"]
(* ------------------------------ actions ------------------------------- *)
\* process.parent(): the parent's handle, None when the process has no
\* parent or its parent is no longer in the process table, or NoSuchProcess
parent_of(p) ==
    IF os_parent[p] \in Pids /\ os_parent[p] \notin os_live THEN None ELSE os_parent[p]

\* the (parent, child) pairs of a tree, the root's children included
Edges(nodes) ==
    UNION {{<<n, c>> : c \in Range(nodes[n].children)} : n \in DOMAIN nodes}

\* the tree buildTree starts from
EmptyTree == (ROOT :> NewNode(None, EmptyDict, "None", TRUE))

\* psutil.process_iter(): the live processes by increasing pid
RECURSIVE SeqOfSet(_)
SeqOfSet(S) ==
    IF S = {} THEN <<>>
    ELSE LET m == CHOOSE x \in S : \A y \in S : x <= y
         IN  <<m>> \o SeqOfSet(S \ {m})

\* getsortlist has not been called since the last update()
NoCall == [sortedby |-> "NoCall", repeated |-> FALSE, moved |-> FALSE]

\* buildTree has attached no node yet
NoPass == [pass |-> 0, left |-> 0, attached |-> EmptyDict]

\* the locals of update() and buildTree() once the handler has ended
ResetLocals ==
    /\ time_since_update' = 0
    /\ procs' = <<>>
    /\ tree_iter' = <<>>
    /\ yielded' = <<>>
    /\ processloop' = <<>>
    /\ first' = FALSE
    /\ processdict' = EmptyDict
    /\ sort_key_arg' = "None"
    /\ first_pass' = <<>>
    /\ tree_nodes' = EmptyDict
    /\ nodes_to_add_last' = <<>>
    /\ passes' = NoPass

\* the handler ends with an exception
Raise(kind) ==
    /\ pc' = "idle"
    /\ exc' = kind
    /\ ResetLocals

\* time passes (at any point, also inside update())
Tick ==
    /\ cache_timer < cache_timeout
    /\ cache_timer' = cache_timer + 1
    /\ expired_usernames' =
           IF ~TimerFinished(cache_timer) /\ TimerFinished(cache_timer')
           THEN expired_usernames \cup DOMAIN username_cache ELSE expired_usernames
    /\ UNCHANGED <<env_vars, os_live, cache_vars, config_vars, result_vars, pc, exc, caller,
                   update_vars, processdict, build_vars, prev_vars, cmdline_calls,
                   cmdline_fetched, cmdline_hits, username_lookup, cleared_usernames,
                   io_last, collect_obs, last_sort, last_setsorting>>

\* update() up to the loop over the processes; disabled is self.disable_tag
UpdateBody(disabled) ==
    /\ processlist' = <<>>
    /\ processcount' = ZeroCount
    /\ last_sort' = NoCall
    /\ last_setsorting' = [node |-> None, key |-> "None", reverse |-> FALSE]
    /\ exc' = "none"
    /\ caller' = "update"
    /\ IF disabled
       THEN /\ pc' = "idle"
            /\ UNCHANGED <<os_live, time_since_update, procs>>
       ELSE /\ pc' = "collect"
            /\ \E t \in inputs.time_since_update : time_since_update' = t
            /\ \E live \in inputs.live :
                   /\ os_live' = live
                   /\ procs' = SeqOfSet(live)
    /\ UNCHANGED <<env_vars, cache_timer, cache_vars, process_tree, tree_iter, yielded,
                   processloop, first, processdict, build_vars, prev_vars, cache_obs_vars,
                   io_last, collect_obs>>

\* an update() that collects whether disabled or not
update_NoDisableCheck ==
    /\ pc = "idle"
    /\ UpdateBody(FALSE)
    /\ UNCHANGED config_vars

update ==
    /\ pc = "idle"
    /\ UpdateBody(disable_tag)
    /\ UNCHANGED config_vars

enable ==
    /\ pc = "idle"
    /\ disable_tag' = FALSE
    /\ UpdateBody(FALSE)
    /\ UNCHANGED <<disable_extended_tag, max_processes, process_filter,
                   process_filter_re, no_kernel_threads, processmanualsort,
                   processautosort>>

enable_extended ==
    /\ pc = "idle"
    /\ disable_extended_tag' = FALSE
    /\ UpdateBody(disable_tag)
    /\ UNCHANGED <<disable_tag, max_processes, process_filter, process_filter_re,
                   no_kernel_threads, processmanualsort, processautosort>>

\* the setters leave everything but the configuration alone
SetterFrame ==
    /\ pc = "idle"
    /\ UNCHANGED <<env_vars, os_live, timer_vars, cache_vars, result_vars, pc, exc, caller,
                   update_vars, processdict, build_vars, prev_vars, obs_vars>>

disable ==
    /\ SetterFrame
    /\ disable_tag' = TRUE
    /\ UNCHANGED <<disable_extended_tag, max_processes, process_filter,
                   process_filter_re, no_kernel_threads, processmanualsort,
                   processautosort>>

disable_extended ==
    /\ SetterFrame
    /\ disable_extended_tag' = TRUE
    /\ UNCHANGED <<disable_tag, max_processes, process_filter, process_filter_re,
                   no_kernel_threads, processmanualsort, processautosort>>

set_max_processes ==
    /\ SetterFrame
    /\ \E value \in inputs.max_processes : max_processes' = value
    /\ UNCHANGED <<disable_tag, disable_extended_tag, process_filter,
                   process_filter_re, no_kernel_threads, processmanualsort,
                   processautosort>>

SetProcessFilter ==
    /\ SetterFrame
    /\ \E value \in inputs.filters :
           /\ process_filter' = set_process_filter(value).process_filter
           /\ process_filter_re' = set_process_filter(value).process_filter_re
    /\ UNCHANGED <<disable_tag, disable_extended_tag, max_processes,
                   no_kernel_threads, processmanualsort, processautosort>>

disable_kernel_threads ==
    /\ SetterFrame
    /\ no_kernel_threads' = TRUE
    /\ UNCHANGED <<disable_tag, disable_extended_tag, max_processes, process_filter,
                   process_filter_re, processmanualsort, processautosort>>

setmanualsortkey ==
    /\ SetterFrame
    /\ \E sortedby \in inputs.manual_keys : processmanualsort' = sortedby
    /\ UNCHANGED <<disable_tag, disable_extended_tag, max_processes, process_filter,
                   process_filter_re, no_kernel_threads, processautosort>>

setautosortkey ==
    /\ SetterFrame
    /\ \E sortedby \in inputs.auto_keys : processautosort' = sortedby
    /\ UNCHANGED <<disable_tag, disable_extended_tag, max_processes, process_filter,
                   process_filter_re, no_kernel_threads, processmanualsort>>

\* resetsort(): setmanualsortkey(None), then setautosortkey('cpu_percent')
resetsort ==
    /\ SetterFrame
    /\ processmanualsort' = "None"
    /\ processautosort' = "cpu_percent"
    /\ UNCHANGED <<disable_tag, disable_extended_tag, max_processes, process_filter,
                   process_filter_re, no_kernel_threads>>

\* getsortlist(sortedby) between two update() calls, with a key that can be
\* the manual or the automatic sort key
GetSortList ==
    /\ pc = "idle"
    /\ \E sortedby \in inputs.manual_keys \cup inputs.auto_keys :
       \E r \in {getsortlist(processlist, sortedby)} :
           /\ last_sort' = [sortedby |-> sortedby, repeated |-> last_sort.sortedby = sortedby,
                            moved |-> r.list # processlist]
           /\ exc' = r.raised
           /\ processlist' = r.list
    /\ UNCHANGED <<env_vars, os_live, timer_vars, cache_vars, config_vars, processcount,
                   process_tree, pc, caller, update_vars, processdict, build_vars, prev_vars,
                   cache_obs_vars, io_last, collect_obs, last_setsorting>>

\* setSorting(key, reverse) called on a node of the stored tree between two
\* update() calls
SetSorting ==
    /\ pc = "idle"
    /\ \E n \in DOMAIN process_tree, key \in inputs.auto_keys, reverse \in BOOLEAN :
           /\ process_tree' = setSorting(process_tree, n, key, reverse)
           /\ last_setsorting' = [node |-> n, key |-> key, reverse |-> reverse]
    /\ UNCHANGED <<env_vars, os_live, timer_vars, cache_vars, config_vars, processlist,
                   processcount, pc, exc, caller, update_vars, processdict, build_vars,
                   prev_vars, cache_obs_vars, io_last, collect_obs, last_sort>>

\* what the observation variables become after a __get_process_stats call r
\* for proc with command-line result cmd
Observe(proc, r, cmd) ==
    /\ cmdline_calls' =
           IF r.cmdline_called
           THEN [cmdline_calls EXCEPT ![proc] = IF @ < 2 THEN @ + 1 ELSE @]
           ELSE cmdline_calls
    /\ cmdline_fetched' =
           IF r.cmdline_called
           THEN (proc :> cmd) @@ [q \in DOMAIN cmdline_fetched \ {proc} |-> cmdline_fetched[q]]
           ELSE cmdline_fetched
    /\ cmdline_hits' =
           IF r.cmdline_looked /\ ~r.cmdline_called
           THEN cmdline_hits \cup {proc} ELSE cmdline_hits
    /\ username_lookup' =
           IF r.username_looked
           THEN [pid |-> proc, fresh |-> r.username_called,
                 expired |-> proc \in expired_usernames,
                 after_clear |-> proc \in cleared_usernames]
           ELSE username_lookup
    /\ expired_usernames' =
           IF r.username_looked THEN expired_usernames \ {proc} ELSE expired_usernames
    /\ cleared_usernames' =
           IF r.username_looked THEN cleared_usernames \ {proc} ELSE cleared_usernames

\* no loop iteration of update() is under observation
NoCollect ==
    [pid |-> None, called |-> FALSE, basic |-> <<>>, io_read |-> FALSE, io |-> <<>>,
     io_before |-> <<>>, keys_before |-> <<>>]

\* the entry of map m for pid, if it has one
EntryOf(m, pid) == [q \in DOMAIN m \cap {pid} |-> m[q]]

\* the basic stats of a process cannot be obtained (it vanished, or cpu% or
\* memory% is missing)
BasicFailed(basic) ==
    basic.gone \/ basic.cpu_percent = NoValue \/ basic.memory_percent = NoValue

\* what a loop iteration of update() for proc, with the OS answers o, leaves
\* under observation: whether __get_process_stats was called, what the OS
\* gave as basic stats and as I/O counters, the last successful I/O read
\* before this one, and, when the basic stats failed, which maps held proc
\* as they were before the call
ObserveCollect(proc, r, o) ==
    \E called \in {~(no_kernel_threads /\ (~is_windows)
                       /\ o.gid \in {0, RaisesNoSuchProcess})} :
    \E io_read \in {called /\ (~BasicFailed(o.basic)) /\ ~is_mac} :
        /\ collect_obs' =
               [pid |-> proc, called |-> called,
                basic |-> IF called THEN o.basic ELSE <<>>,
                io_read |-> io_read,
                io |-> IF io_read THEN o.io ELSE <<>>,
                io_before |-> IF ~io_read THEN <<>>
                              ELSE IF proc \in DOMAIN io_last THEN io_last[proc]
                              ELSE <<0, 0>>,
                keys_before |-> IF called /\ BasicFailed(o.basic)
                                THEN <<EntryOf(username_cache, proc),
                                       EntryOf(cmdline_cache, proc),
                                       EntryOf(io_old, proc)>>
                                ELSE <<>>]
        /\ io_last' =
               IF io_read /\ o.io.ok
               THEN (proc :> <<o.io.read_bytes, o.io.write_bytes>>) @@
                    [q \in DOMAIN io_last \ {proc} |-> io_last[q]]
               ELSE io_last

\* one iteration of the loop over psutil.process_iter()
CollectProc ==
    /\ pc = "collect"
    /\ procs # <<>>
    /\ \E gid \in inputs.gid, basic \in inputs.basic, cmd \in inputs.cmdline, io \in inputs.io,
          user \in inputs.username, std \in inputs.std, s1 \in inputs.status, s2 \in inputs.status,
          threads \in inputs.threads :
         \E proc \in {Head(procs)} :
         \E o \in {[gid |-> gid, basic |-> basic, cmdline |-> cmd, io |-> io,
                    username |-> user, std |-> std, status1 |-> s1, status2 |-> s2,
                    threads |-> threads]} :
         \E r \in {collect_one(proc, o)} :
             /\ ObserveCollect(proc, r, o)
             /\ UNCHANGED <<last_sort, last_setsorting>>
             /\ username_cache' = r.username_cache
             /\ cmdline_cache' = r.cmdline_cache
             /\ io_old' = r.io_old
             /\ processcount' = r.processcount
             /\ Observe(proc, r, cmd)
             /\ IF r.raised # "none"
                THEN Raise(r.raised)
                ELSE /\ processdict' = r.processdict
                     /\ procs' = Tail(procs)
                     /\ UNCHANGED <<pc, exc, time_since_update, tree_iter, yielded, processloop,
                                    first, build_vars>>
    /\ UNCHANGED <<env_vars, os_live, timer_vars, config_vars, processlist, process_tree, caller,
                   prev_vars>>

\* sorted(processdict.items(), key=lambda x: x[1][key], reverse=True) of the
\* items in dict order
SortedItems(order, dict, key) ==
    SortByKey(order,
              [q \in Range(order) |-> IF key = "name" THEN LexKey(dict[q][key], 4)
                                      ELSE dict[q][key]],
              TRUE)

\* a slice that keeps every item
TopSlice_All(items, stop) == items

\* processiter[0:stop]
TopSlice(items, stop) ==
    IF stop >= 0 THEN SubSeq(items, 1, IF stop < Len(items) THEN stop ELSE Len(items))
    ELSE SubSeq(items, 1, IF Len(items) + stop > 0 THEN Len(items) + stop ELSE 0)

\* an update of a record that only stamps it
StampStats_StampOnly(stats, new_stats, t) == ("time_since_update" :> t) @@ stats

\* stats.update(new_stats), then stats['time_since_update'] = t
StampStats(stats, new_stats, t) == ("time_since_update" :> t) @@ new_stats @@ stats

\* the orders in which processdict.items() can iterate: any order when the
\* dict orders its keys by hash, the insertion order (process_iter() yields
\* by increasing pid) when it keeps it
DictOrders(dict) ==
    IF inputs.hash_order THEN Perms(DOMAIN dict) ELSE {SeqOfSet(DOMAIN dict)}

\* the loop over the processes is over: buildTree is called (tree mode), or
\* the list of records to emit is chosen (flat mode).  The values of a sort
\* key in the records are all numbers or all strings, so that sorted() does
\* not raise the TypeError of the "Fallback to all process" branch.
CollectEnd ==
    /\ collect_obs' = NoCollect
    /\ pc = "collect"
    /\ procs = <<>>
    /\ \E order \in DictOrders(processdict) :
         IF PROCESS_TREE
         THEN /\ pc' = "build"
              /\ sort_key_arg' = getsortkey(processmanualsort, processautosort)
              /\ first_pass' = order
              /\ tree_nodes' = EmptyTree
              /\ nodes_to_add_last' = <<>>
              /\ passes' = NoPass
              /\ UNCHANGED <<processloop, first>>
         ELSE /\ pc' = "flat_loop"
              /\ IF max_processes # None
                 THEN /\ processloop' =
                            TopSlice(SortedItems(order, processdict,
                                                 getsortkey(processmanualsort,
                                                            processautosort)),
                                     max_processes)
                      /\ first' = TRUE
                 ELSE /\ processloop' = order
                      /\ first' = FALSE
              /\ UNCHANGED build_vars
    /\ UNCHANGED <<env_vars, os_live, timer_vars, cache_vars, config_vars, result_vars, exc,
                   caller, time_since_update, procs, tree_iter, yielded, processdict,
                   prev_vars, cache_obs_vars, io_last, last_sort, last_setsorting>>

\* buildTree, one iteration of the first pass
FirstPass ==
    /\ pc = "build"
    /\ first_pass # <<>>
    /\ \E p \in {Head(first_pass)} :
       \E r \in {FirstPassStep(tree_nodes, nodes_to_add_last, p, processdict[p],
                                sort_key_arg, parent_of(p))} :
           /\ tree_nodes' = r.nodes
           /\ nodes_to_add_last' = r.queue
           /\ passes' = IF \E e \in Edges(r.nodes) : e[2] = p
                         THEN [passes EXCEPT !.attached = (p :> 0) @@ @]
                         ELSE passes
    /\ first_pass' = Tail(first_pass)
    /\ UNCHANGED <<env_vars, os_live, timer_vars, cache_vars, config_vars, result_vars, pc, exc,
                   caller, update_vars, processdict, sort_key_arg, prev_vars,
                   obs_vars>>

\* the passes of the "while nodes_to_add_last" loop: a pass takes each node
\* that was in the deque when the pass before it ended, once; edges are the
\* (parent, child) pairs after this iteration.  The count of passes stops at
\* MaxPid + 1, which a loop that makes progress in every pass never reaches.
PassStep(obs, queue, edges) ==
    LET begins == obs.left = 0
        pass == IF ~begins THEN obs.pass
                ELSE IF obs.pass > MaxPid THEN obs.pass ELSE obs.pass + 1
        left == IF begins THEN Len(queue) ELSE obs.left
        node == Head(queue)
    IN  [pass |-> pass, left |-> left - 1,
         attached |-> IF \E e \in edges : e[2] = node
                      THEN (node :> pass) @@ obs.attached ELSE obs.attached]

\* buildTree, one iteration of the loop over the deferred nodes
NextPass ==
    /\ pc = "build"
    /\ first_pass = <<>>
    /\ nodes_to_add_last # <<>>
    /\ \E r \in {NextPassStep(tree_nodes, nodes_to_add_last,
                               parent_of(Head(nodes_to_add_last)))} :
           IF r.raised
           THEN /\ Raise("AttributeError")
                /\ UNCHANGED prev_vars
           ELSE /\ tree_nodes' = r.nodes
                /\ nodes_to_add_last' = r.queue
                /\ passes' = PassStep(passes, nodes_to_add_last, Edges(r.nodes))
                /\ UNCHANGED <<pc, exc, update_vars, processdict, sort_key_arg,
                               first_pass, prev_vars>>
    /\ UNCHANGED <<env_vars, os_live, timer_vars, cache_vars, config_vars, result_vars, caller,
                   obs_vars>>

\* buildTree returns tree_root.  Called from update(), the tree is stored
\* and its iteration starts: the root is not yielded, its children are sorted.
BuildReturn ==
    /\ pc = "build"
    /\ first_pass = <<>>
    /\ nodes_to_add_last = <<>>
    /\ IF caller = "direct"
       THEN /\ pc' = "returned"
            /\ UNCHANGED <<exc, process_tree, update_vars, processdict, build_vars>>
       ELSE IF SortRaises(tree_nodes, ROOT)
       THEN /\ process_tree' = tree_nodes
            /\ Raise("TypeError")
       ELSE /\ process_tree' = SortChildren(tree_nodes, ROOT)
            /\ tree_iter' = process_tree'[ROOT].children
            /\ yielded' = <<>>
            /\ pc' = "tree_stats"
            /\ tree_nodes' = EmptyDict
            /\ passes' = NoPass
            /\ UNCHANGED <<exc, time_since_update, procs, processloop, first,
                           processdict, sort_key_arg, first_pass, nodes_to_add_last>>
    /\ UNCHANGED <<env_vars, os_live, timer_vars, cache_vars, config_vars, processlist,
                   processcount, caller, prev_vars, obs_vars>>

\* an iterator that yields a node's children after everything pending
IterNext_BreadthFirst(pending, children) == Tail(pending) \o children

\* ProcessTreeNode.__iter__ after the node at the head of pending was yielded:
\* "yield from iter(child)" for its children in their order, then the rest
IterNext(pending, children) == children \o Tail(pending)

\* the body of the loop over the tree for the node the iterator yields, then
\* the iterator's next step: that node's children are sorted and come next
TreeStats ==
    /\ pc = "tree_stats"
    /\ tree_iter # <<>>
    /\ \E user \in inputs.username, std \in inputs.std :
         \E node \in {Head(tree_iter)} :
         \E r \in {get_process_stats(node, FALSE, TRUE, FALSE,
                                     [username |-> user, std |-> std], username_cache,
                                     cmdline_cache, io_old, disable_extended_tag, is_mac)} :
         \E stamped \in {[process_tree EXCEPT
                            ![node].stats = StampStats(@, r.ret, time_since_update)]} :
             /\ username_cache' = r.username_cache
             /\ cmdline_cache' = r.cmdline_cache
             /\ io_old' = r.io_old
             /\ Observe(node, r, [ok |-> FALSE, argv |-> <<>>])
             /\ UNCHANGED <<io_last, collect_obs, last_sort, last_setsorting>>
             /\ IF r.raised # "none"
                THEN /\ Raise(r.raised)
                     /\ UNCHANGED process_tree
                ELSE IF SortRaises(stamped, node)
                THEN /\ Raise("TypeError")
                     /\ process_tree' = stamped
                ELSE /\ process_tree' = SortChildren(stamped, node)
                     /\ tree_iter' = IterNext(tree_iter, process_tree'[node].children)
                     /\ yielded' = Append(yielded, node)
                     /\ UNCHANGED <<pc, exc, time_since_update, procs, processloop,
                                    first, processdict, build_vars>>
    /\ UNCHANGED <<env_vars, os_live, timer_vars, config_vars, processlist, processcount, caller,
                   prev_vars>>

\* flat mode, one iteration of "for i in processloop"
FlatStep ==
    /\ pc = "flat_loop"
    /\ processloop # <<>>
    /\ \E user \in inputs.username, std \in inputs.std :
         \E proc \in {Head(processloop)}, capped \in {max_processes # None} :
         \E r \in {get_process_stats(proc, FALSE, TRUE, first,
                                     [username |-> user, std |-> std], username_cache,
                                     cmdline_cache, io_old, disable_extended_tag, is_mac)} :
         \E procstat \in {IF capped
                          THEN StampStats(processdict[proc], r.ret, time_since_update)
                          ELSE ("time_since_update" :> time_since_update)
                                 @@ processdict[proc]} :
             IF capped /\ r.raised # "none"
             THEN /\ Raise(r.raised)
                  /\ username_cache' = r.username_cache
                  /\ Observe(proc, r, [ok |-> FALSE, argv |-> <<>>])
                  /\ UNCHANGED <<processlist, io_last, collect_obs, last_sort, last_setsorting>>
             ELSE /\ username_cache' = IF capped THEN r.username_cache ELSE username_cache
                  /\ IF capped THEN /\ Observe(proc, r, [ok |-> FALSE, argv |-> <<>>])
                                    /\ UNCHANGED <<io_last, collect_obs, last_sort, last_setsorting>>
                               ELSE UNCHANGED obs_vars
                  /\ processdict' = [processdict EXCEPT ![proc] = procstat]
                  /\ processlist' = Append(processlist, procstat)
                  /\ processloop' = Tail(processloop)
                  /\ first' = FALSE
                  /\ UNCHANGED <<pc, exc, time_since_update, procs, tree_iter, yielded, build_vars>>
    /\ UNCHANGED <<env_vars, os_live, timer_vars, cmdline_cache, io_old, config_vars,
                   processcount, process_tree, caller, prev_vars>>

\* the end of update(): the caches are cleaned if the timer has finished
CleanCaches ==
    /\ \/ pc = "tree_stats" /\ tree_iter = <<>>
       \/ pc = "flat_loop" /\ processloop = <<>>
    /\ \E r \in {clean_caches(username_cache, cmdline_cache, io_old, cache_timer)} :
           /\ username_cache' = r.username_cache
           /\ cmdline_cache' = r.cmdline_cache
           /\ io_old' = r.io_old
           /\ cache_timer' = r.cache_timer
    /\ IF TimerFinished(cache_timer)
       THEN /\ cmdline_calls' = [q \in Pids |-> 0]
            /\ cmdline_fetched' = EmptyDict
            /\ cmdline_hits' = {}
            /\ cleared_usernames' = cleared_usernames \cup DOMAIN username_cache
            /\ UNCHANGED <<username_lookup, expired_usernames, io_last, collect_obs, last_sort, last_setsorting>>
       ELSE UNCHANGED obs_vars
    /\ pc' = "idle"
    /\ ResetLocals
    /\ UNCHANGED <<env_vars, os_live, config_vars, result_vars, exc, caller,
                   prev_vars>>

\* a direct caller builds the tree of the same records again, in any order
Rebuild ==
    /\ pc = "returned"
    /\ caller = "direct"
    /\ has_prev' = TRUE
    /\ prev_edges' = Edges(tree_nodes)
    /\ \E order \in Perms(DOMAIN processdict) : first_pass' = order
    /\ tree_nodes' = EmptyTree
    /\ nodes_to_add_last' = <<>>
    /\ passes' = NoPass
    /\ pc' = "build"
    /\ UNCHANGED <<env_vars, os_live, timer_vars, cache_vars, config_vars, result_vars, exc,
                   caller, update_vars, processdict, sort_key_arg, obs_vars>>
(* ------------------------------ initial states ------------------------ *)
\* GlancesProcesses.__init__
InitObject ==
    /\ username_cache = EmptyDict
    /\ cmdline_cache = EmptyDict
    /\ cache_timer = TimerReset
    /\ io_old = EmptyDict
    /\ processmanualsort = "None"
    /\ processautosort = "cpu_percent"
    /\ processlist = <<>>
    /\ processcount = ZeroCount
    /\ disable_tag = FALSE
    /\ disable_extended_tag = FALSE
    /\ max_processes = None
    /\ process_filter = NoneStr
    /\ process_filter_re = NoneStr
    /\ no_kernel_threads = FALSE
    /\ process_tree = EmptyDict

\* no handler is running
InitIdle ==
    /\ pc = "idle"
    /\ caller = "update"
    /\ processdict = EmptyDict
    /\ sort_key_arg = "None"
    /\ first_pass = <<>>
    /\ tree_nodes = EmptyDict

\* nothing has run and nothing has been observed yet
InitRest ==
    /\ exc = "none"
    /\ time_since_update = 0
    /\ procs = <<>>
    /\ tree_iter = <<>>
    /\ yielded = <<>>
    /\ processloop = <<>>
    /\ first = FALSE
    /\ nodes_to_add_last = <<>>
    /\ passes = NoPass
    /\ has_prev = FALSE
    /\ prev_edges = {}
    /\ cmdline_calls = [q \in Pids |-> 0]
    /\ cmdline_fetched = EmptyDict
    /\ cmdline_hits = {}
    /\ username_lookup = [pid |-> None, fresh |-> FALSE, expired |-> FALSE,
                          after_clear |-> FALSE]
    /\ expired_usernames = {}
    /\ cleared_usernames = {}
    /\ io_last = EmptyDict
    /\ collect_obs = NoCollect
    /\ last_sort = NoCall
    /\ last_setsorting = [node |-> None, key |-> "None", reverse |-> FALSE]

\* results of the psutil calls of a process that answers every call
BasicOk(name) == [gone |-> FALSE, cpu_percent |-> 1, memory_percent |-> 1, name |-> name]
CmdlineOk(argv) == [ok |-> TRUE, argv |-> argv]
CmdlineDenied == [ok |-> FALSE, argv |-> <<>>]
IoOk(r, w) == [ok |-> TRUE, read_bytes |-> r, write_bytes |-> w]
IoDenied == [ok |-> FALSE, read_bytes |-> 0, write_bytes |-> 0]
UserOk(name) == [kind |-> "ok", name |-> name, uid |-> "ok", real |-> <<"0">>]
UserGone == [kind |-> "NoSuchProcess", name |-> <<>>, uid |-> "ok", real |-> <<"0">>]
UserDenied(uid) == [kind |-> "AccessDenied", name |-> <<>>, uid |-> uid,
                    real |-> <<"1", "0", "0", "0">>]
BasicCpu(name, cpu) == [gone |-> FALSE, cpu_percent |-> cpu, memory_percent |-> 1, name |-> name]
BasicGone == [gone |-> TRUE, cpu_percent |-> 0, memory_percent |-> 0, name |-> <<>>]
BasicNoCpu == [gone |-> FALSE, cpu_percent |-> NoValue, memory_percent |-> 1, name |-> NAME_SH]
StdOk(status) == [gone |-> FALSE, status |-> status]
StdGone == [gone |-> TRUE, status |-> <<>>]
USER_ROOT == <<"r", "o", "o", "t">>
ARGV_SH_C == <<NAME_SH, <<"-", "c">>>>

\* a process table of up to MaxLive well-behaved processes
MaxLive == 2

PlainInputs ==
    [live |-> SUBSET (1..MaxLive),
     hash_order |-> TRUE,
     manual_keys |-> {"None", "memory_percent"},
     auto_keys |-> {"cpu_percent", "memory_percent"},
     time_since_update |-> {1},
     gid |-> {1000},
     basic |-> {BasicOk(NAME_SH)},
     cmdline |-> {CmdlineOk(ARGV_SH_C)},
     io |-> {IoOk(1, 1)},
     username |-> {UserOk(USER_ROOT)},
     std |-> {StdOk(STATUS_RUNNING)},
     status |-> {STATUS_RUNNING},
     threads |-> {1},
     max_processes |-> {None, 1},
     filters |-> {NoneStr}]

(* ------------------- buildTree called on its own ---------------------- *)
\* the stats of a record handed to buildTree
RecordOf(p) == ("cpu_percent" :> 0) @@ ("pid" :> p)

InitTree ==
    /\ InitObject
    /\ InitRest
    /\ inputs = PlainInputs
    /\ platform = "linux"
    /\ PROCESS_TREE = TRUE
    /\ os_live = Pids
    /\ \E records \in SUBSET Pids :
         /\ os_parent \in [Pids -> Pids \cup {None, RaisesNoSuchProcess}]
         /\ \A p \in Pids \ records : os_parent[p] = None
         /\ \A p \in Pids : os_parent[p] # p
         /\ processdict = [p \in records |-> RecordOf(p)]
         /\ first_pass \in Perms(records)
    /\ caller = "direct"
    /\ pc = "build"
    /\ sort_key_arg = "cpu_percent"
    /\ tree_nodes = EmptyTree

NextTree == FirstPass \/ NextPass \/ BuildReturn \/ Rebuild

SpecTree == InitTree /\ [][NextTree]_vars

\* the loops of buildTree keep running: no step of it is postponed forever
FairSpecTree == SpecTree /\ WF_vars(NextTree)
(* ------------------------- claims about buildTree --------------------- *)
\* the nodes of a tree in the order a walk from node n meets them, each as
\* often as the walk meets it
RECURSIVE Walk(_, _)
RECURSIVE WalkAll(_, _)
Walk(nodes, n) == <<n>> \o WalkAll(nodes, nodes[n].children)

WalkAll(nodes, cs) ==
    IF cs = <<>> THEN <<>> ELSE Walk(nodes, Head(cs)) \o WalkAll(nodes, Tail(cs))

\* how many nodes below the root own pid p
Owners(nodes, p) ==
    LET w == Walk(nodes, ROOT)
    IN  Cardinality({i \in DOMAIN w : (~nodes[w[i]].is_root) /\ nodes[w[i]].process = p})

\* C1: buildTree terminates for every record set and every OS parent
\* relation: the pending queue becomes empty and the root is returned.
C1_BuildTreeReturns == <>(pc = "returned")

\* C3: in the returned tree every input record is owned by exactly one
\* non-root node, and no pid is owned by two nodes.
C3_EachRecordOnce ==
    pc = "returned" =>
        /\ \A p \in DOMAIN processdict : Owners(tree_nodes, p) = 1
        /\ \A p \in Pids \ DOMAIN processdict : Owners(tree_nodes, p) = 0
        /\ Len(Walk(tree_nodes, ROOT)) = 1 + Cardinality(DOMAIN processdict)

\* a tree of two records or more with a node below another node was returned
C3_Witness ==
    /\ pc = "returned"
    /\ Cardinality(DOMAIN processdict) >= 2
    /\ \E n \in DOMAIN tree_nodes : n # ROOT /\ tree_nodes[n].children # <<>>

\* C4: in the returned tree a node whose OS parent has a node is a direct
\* child of that node; a node without a parent, or whose parent is gone, is
\* a direct child of the root.
C4_ChildOfOsParent ==
    pc = "returned" =>
        \A n \in DOMAIN processdict :
            /\ (parent_of(n) \in Pids /\ findProcess(tree_nodes, ROOT, parent_of(n)) # None)
                   => n \in Range(tree_nodes[findProcess(tree_nodes, ROOT, parent_of(n))].children)
            /\ parent_of(n) \in {None, RaisesNoSuchProcess}
                   => n \in Range(tree_nodes[ROOT].children)

\* the records A(pid 1), B(pid 2, parent 1), C(pid 3, parent gone) gave a
\* root with the children A (with child B) and C
C4_Witness ==
    /\ pc = "returned"
    /\ DOMAIN processdict = {1, 2, 3}
    /\ os_parent[1] = None /\ os_parent[2] = 1 /\ os_parent[3] = RaisesNoSuchProcess
    /\ Edges(tree_nodes) = {<<ROOT, 1>>, <<ROOT, 3>>, <<1, 2>>}

\* C5: a build of the same records under the same OS parent relation, in any
\* iteration order, gives the same (parent, child) pairs as the build before
\* it, the root's children included.
C5_SameEdgesEveryOrder ==
    (pc = "returned" /\ has_prev) => Edges(tree_nodes) = prev_edges

\* a second build returned a tree with a node below another node
C5_Witness ==
    /\ pc = "returned"
    /\ has_prev
    /\ \E e \in prev_edges : e[1] # ROOT
(* ---------------------- the collector and its cycle ------------------- *)
\* a freshly constructed GlancesProcesses, no process seen yet
InitProc ==
    /\ InitObject
    /\ InitIdle
    /\ InitRest
    /\ os_live = {}

\* no process has a parent in the table, or pid 2 is a child of pid 1
FlatParents == [p \in Pids |-> None]
ChildParents == [p \in Pids |-> IF p = 2 THEN 1 ELSE None]
\* pid 1 is a child of pid 2
ReverseParents == [p \in Pids |-> IF p = 1 THEN 2 ELSE None]

\* the steps of one update() call
Cycle ==
    \/ CollectProc
    \/ CollectEnd
    \/ FirstPass
    \/ NextPass
    \/ BuildReturn
    \/ TreeStats
    \/ CleanCaches

(* ------------- counting: every status a process can report ---------- *)
CountInputs ==
    [PlainInputs EXCEPT
       !.status = {STATUS_RUNNING, STATUS_ZOMBIE, StatusGone},
       !.max_processes = {None}]

InitCount ==
    /\ InitProc
    /\ inputs = CountInputs
    /\ platform \in {"linux", "bsd"}
    /\ PROCESS_TREE = TRUE
    /\ os_parent = ChildParents

NextCount == update \/ Cycle

SpecCount == InitCount /\ [][NextCount]_vars

(* ------------- filtering: good and bad filter patterns ---------------- *)
PATTERN_SH == NAME_SH
PATTERN_BAD == <<"(">>

FilterInputs ==
    [PlainInputs EXCEPT
       !.basic = {BasicOk(NAME_SH), BasicOk(NAME_TOP)},
       !.cmdline = {CmdlineOk(<<NAME_TOP>>)},
       !.filters = {NoneStr, PATTERN_SH, PATTERN_BAD},
       !.max_processes = {None}]

InitFilter ==
    /\ InitProc
    /\ inputs = FilterInputs
    /\ platform = "linux"
    /\ PROCESS_TREE = TRUE
    /\ os_parent = ChildParents

NextFilter == update \/ SetProcessFilter \/ Cycle

SpecFilter == InitFilter /\ [][NextFilter]_vars

\* the collection of the cycle is over
Collected == pc \in {"build", "tree_stats", "flat_loop"}

\* the records of the cycle that the idle-process exclusion lets through
CountedRecords == {p \in DOMAIN processdict : ~IsIdleProcess(processdict[p]["name"])}

\* C2: after a cycle, processcount['total'] is the number of records in the
\* cycle's output, whatever status strings the processes report.
C2_TotalIsRecordCount ==
    Collected => processcount[KEY_TOTAL] = Cardinality(CountedRecords)

\* the values is_filtered is called with in the modelled cycles
FilterValues == {NAME_SH, NAME_TOP, <<>>}

\* C7: after set_process_filter with a pattern that does not compile,
\* is_filtered returns False for every value without raising, and update()
\* does not end with that exception.
C7_BadPatternLeavesFilterOff ==
    (process_filter # NoneStr /\ process_filter_re = NoneStr) =>
        /\ \A v \in FilterValues :
               is_filtered(process_filter, process_filter_re, v) = "False"
        /\ exc # "AttributeError"

(* ------------- modes: tree or flat output, enabled or disabled -------- *)
ModeInputs == PlainInputs

InitMode ==
    /\ InitProc
    /\ inputs = ModeInputs
    /\ platform = "linux"
    /\ PROCESS_TREE \in BOOLEAN
    /\ os_parent = ChildParents

NextMode ==
    \/ update
    \/ enable
    \/ disable
    \/ set_max_processes
    \/ Cycle
    \/ FlatStep

SpecMode == InitMode /\ [][NextMode]_vars

\* what a disabled update() leaves alone in both formulations of C6
DisabledUpdateKeeps ==
    /\ pc' = "idle"
    /\ processcount' = ZeroCount
    /\ UNCHANGED <<process_tree, cache_vars, timer_vars, config_vars, os_live>>

\* C6 as stated: a disabled update() zeroes the counters and changes nothing
\* else; the flat list and the tree of the last enabled cycle stay as they
\* were.
C6_DisabledUpdateKeepsListAndTree ==
    [][(disable_tag /\ update) => (DisabledUpdateKeeps /\ processlist' = processlist)]_vars

\* C6, amended: a disabled update() returns at once with the counters at zero
\* and the flat list emptied; the tree of the last enabled cycle, the maps,
\* the timers and the configuration stay as they were.
C6_DisabledUpdateEmptiesList ==
    [][(disable_tag /\ update) => (DisabledUpdateKeeps /\ processlist' = <<>>)]_vars

\* collection is disabled, update() has zeroed the counters of a cycle that
\* counted processes, and the tree of that cycle is still there
C6_Witness ==
    /\ pc = "idle"
    /\ disable_tag
    /\ process_tree # EmptyDict
    /\ process_tree[ROOT].children # <<>>
    /\ processcount = ZeroCount

(* ------------- caches: time passes, the OS answers vary --------------- *)
CacheInputs ==
    [PlainInputs EXCEPT
       !.cmdline = {CmdlineOk(ARGV_SH_C), CmdlineDenied},
       !.hash_order = FALSE,
       !.max_processes = {None}]

InitCache ==
    /\ InitProc
    /\ inputs = CacheInputs
    /\ platform = "linux"
    /\ PROCESS_TREE = TRUE
    /\ os_parent = ReverseParents

NextCache == update \/ Tick \/ Cycle

SpecCache == InitCache /\ [][NextCache]_vars

\* C8 as stated: once the cache timer's interval has elapsed, the next
\* username lookup for a pid cached before that is a fresh fetch.
C8_LookupAfterIntervalIsFresh ==
    username_lookup.expired => username_lookup.fresh

\* C8, amended: the interval elapsing does not by itself refresh anything.  A
\* lookup for a pid cached when the interval elapsed still returns the cached
\* value until the end of the update cycle that finds the timer finished has
\* emptied the cache; the first lookup after that is a fresh fetch.
C8_LookupAfterClearIsFresh ==
    /\ username_lookup.after_clear => username_lookup.fresh
    /\ (username_lookup.expired /\ ~username_lookup.after_clear) => ~username_lookup.fresh

\* a username cached when the interval elapsed was dropped by the clear at the
\* end of a cycle and then fetched again
C8_Witness ==
    /\ username_lookup.pid = 1
    /\ username_lookup.expired
    /\ username_lookup.after_clear
    /\ username_lookup.fresh
    /\ 1 \in DOMAIN username_cache

\* the end of an update cycle that finds the cache timer finished
ClearingStep == CleanCaches /\ TimerFinished(cache_timer)

\* no key leaves map m in this step
KeepsKeys(m) == DOMAIN m \subseteq DOMAIN m'

\* C9 as stated: the username cache, the command-line cache and the previous
\* I/O counters are emptied together at the end of a cycle that finds the
\* timer elapsed, the timer is restarted, and no other step empties any.
C9_ThreeMapsClearedTogether ==
    [][/\ ClearingStep => /\ username_cache' = EmptyDict
                          /\ cmdline_cache' = EmptyDict
                          /\ io_old' = EmptyDict
                          /\ cache_timer' = TimerReset
       /\ ~ClearingStep => /\ KeepsKeys(username_cache)
                           /\ KeepsKeys(cmdline_cache)
                           /\ KeepsKeys(io_old)]_vars

\* C9, amended: the username cache and the command-line cache are emptied
\* together at the end of a cycle that finds the timer elapsed and the timer
\* is restarted; no other step drops a key of either; the previous I/O
\* counters are never emptied, that step keeps them as they are.
C9_TwoCachesClearedTogether ==
    [][/\ ClearingStep => /\ username_cache' = EmptyDict
                          /\ cmdline_cache' = EmptyDict
                          /\ io_old' = io_old
                          /\ cache_timer' = TimerReset
       /\ ~ClearingStep => /\ KeepsKeys(username_cache)
                           /\ KeepsKeys(cmdline_cache)
       /\ KeepsKeys(io_old)]_vars

\* a cycle has just emptied both caches and left the previous I/O counters
C9_Witness ==
    /\ pc = "idle"
    /\ cache_timer = TimerReset
    /\ username_cache = EmptyDict
    /\ cmdline_cache = EmptyDict
    /\ DOMAIN io_old = {1, 2}

\* the string ' '.join(["sh", "-c"]) is
SH_C == <<"s", "h", " ", "-", "c">>

\* C10: between two cache clears proc.cmdline() is called at most once per
\* pid; a successful call stores the joined command line, a failed one the
\* empty string, and the records of later cycles carry the stored value.
C10_CmdlineFetchedOncePerEpoch ==
    /\ \A p \in Pids : cmdline_calls[p] <= 1
    /\ \A p \in DOMAIN cmdline_fetched :
           /\ p \in DOMAIN cmdline_cache
           /\ cmdline_fetched[p] = CmdlineOk(ARGV_SH_C) => cmdline_cache[p] = SH_C
           /\ cmdline_fetched[p] = CmdlineDenied => cmdline_cache[p] = <<>>
    /\ \A p \in DOMAIN processdict : processdict[p]["cmdline"] = cmdline_cache[p]
    /\ cmdline_hits \subseteq DOMAIN cmdline_fetched

\* in one epoch pid 1's command line was fetched once and failed, pid 2's was
\* fetched once and succeeded, and a later cycle took both from the cache
C10_Witness ==
    /\ cmdline_hits = {1, 2}
    /\ cmdline_calls[1] = 1 /\ cmdline_calls[2] = 1
    /\ cmdline_fetched[1] = CmdlineDenied
    /\ cmdline_fetched[2] = CmdlineOk(ARGV_SH_C)
    /\ DOMAIN processdict = {1, 2}
    /\ processdict[1]["cmdline"] = <<>>
    /\ processdict[2]["cmdline"] = SH_C

(* ------------- I/O counters and processes that cannot be read --------- *)
IoInputs ==
    [PlainInputs EXCEPT
       !.basic = {BasicOk(NAME_SH), BasicGone, BasicNoCpu},
       !.io = {IoOk(1, 1), IoOk(2, 3), IoDenied},
       !.hash_order = FALSE,
       !.max_processes = {None}]

InitIo ==
    /\ InitProc
    /\ inputs = IoInputs
    /\ platform = "linux"
    /\ PROCESS_TREE = FALSE
    /\ os_parent = FlatParents

NextIo == update \/ CollectProc \/ CollectEnd \/ FlatStep \/ CleanCaches

SpecIo == InitIo /\ [][NextIo]_vars

\* C11: the stored previous values are, for every pid, what its last
\* successful I/O read gave (a failed read leaves them alone); the record of
\* a successful read carries the values read, then those of the successful
\* read before it ((0, 0) for the first), then tag 1; the record of a failed
\* read carries [0, 0, 0, 0] and tag 0.
C11_PreviousIoIsPrecedingRead ==
    /\ io_old = io_last
    /\ collect_obs.io_read =>
           /\ collect_obs.io.ok =>
                  io_old[collect_obs.pid] =
                      <<collect_obs.io.read_bytes, collect_obs.io.write_bytes>>
           /\ collect_obs.pid \in DOMAIN processdict
           /\ processdict[collect_obs.pid]["io_counters"] =
                  IF collect_obs.io.ok
                  THEN <<collect_obs.io.read_bytes, collect_obs.io.write_bytes>>
                           \o collect_obs.io_before \o <<1>>
                  ELSE <<0, 0, 0, 0, 0>>

\* pid 1 was read as (2, 3) after a read as (1, 1); a read of pid 2 has
\* failed after one that succeeded
C11_Witness ==
    /\ collect_obs.pid = 2
    /\ collect_obs.io_read
    /\ ~collect_obs.io.ok
    /\ 2 \in DOMAIN io_old
    /\ 1 \in DOMAIN processdict
    /\ processdict[1]["io_counters"] = <<2, 3, 1, 1, 1>>
    /\ processdict[2]["io_counters"] = <<0, 0, 0, 0, 0>>

\* C12: when cpu% or memory% cannot be obtained in the mandatory fetch, the
\* process has no record in the cycle and the call has written nothing for
\* its pid into the username cache, the command-line cache or the previous
\* I/O counters.
C12_FailedFetchWritesNothing ==
    (collect_obs.called /\ BasicFailed(collect_obs.basic)) =>
        /\ collect_obs.pid \notin DOMAIN processdict
        /\ collect_obs.keys_before =
               <<EntryOf(username_cache, collect_obs.pid),
                 EntryOf(cmdline_cache, collect_obs.pid),
                 EntryOf(io_old, collect_obs.pid)>>

\* a process without cpu% was dropped while nothing was cached for it, in a
\* cycle after one that cached the command line of another process
C12_Witness ==
    /\ collect_obs.called
    /\ collect_obs.basic = BasicNoCpu
    /\ collect_obs.pid = 1
    /\ 1 \notin DOMAIN cmdline_cache
    /\ 2 \in DOMAIN cmdline_cache

(* ------------- sort keys: manual, automatic, effective ---------------- *)
SortInputs ==
    [PlainInputs EXCEPT
       !.manual_keys = {"None", "memory_percent", "name"},
       !.auto_keys = {"cpu_percent", "memory_percent", "io_counters"},
       !.max_processes = {None}]

InitSort ==
    /\ InitProc
    /\ inputs = SortInputs
    /\ platform = "linux"
    /\ PROCESS_TREE = TRUE
    /\ os_parent = ChildParents

NextSort ==
    \/ setmanualsortkey
    \/ setautosortkey
    \/ resetsort
    \/ update
    \/ Cycle

SpecSort == InitSort /\ [][NextSort]_vars

\* C13: after any setmanualsortkey, setautosortkey and resetsort calls,
\* getsortkey() is the manual key when it is not None and the automatic key
\* otherwise, and that is the key update() hands to buildTree; resetsort
\* leaves the manual key None and the automatic key 'cpu_percent'.
C13_ManualKeyWinsElseAutomatic ==
    [][/\ processmanualsort' # "None"
              => getsortkey(processmanualsort', processautosort') = processmanualsort'
       /\ processmanualsort' = "None"
              => getsortkey(processmanualsort', processautosort') = processautosort'
       /\ pc' = "build"
              => sort_key_arg' = IF processmanualsort' # "None" THEN processmanualsort'
                                 ELSE processautosort'
       /\ resetsort => (processmanualsort' = "None" /\ processautosort' = "cpu_percent")]_vars

\* with the manual key 'memory_percent' and the automatic key 'io_counters'
\* set, update() builds its tree with 'memory_percent'
C13_Witness ==
    /\ processmanualsort = "memory_percent"
    /\ processautosort = "io_counters"
    /\ pc = "build"
    /\ sort_key_arg = "memory_percent"
    /\ DOMAIN processdict = {1, 2}

(* ------------- trees of three processes and their iteration ---------- *)
\* pid 1 is the parent of every other process, or each process is the child
\* of the one before it, or of the one after it, or only pid 2 has a parent
TreeParents ==
    {[p \in Pids |-> IF p = 1 THEN None ELSE 1],
     [p \in Pids |-> IF p = 1 THEN None ELSE p - 1],
     [p \in Pids |-> IF p = MaxPid THEN None ELSE p + 1],
     ChildParents}

IterInputs ==
    [PlainInputs EXCEPT
       !.live = {Pids},
       !.hash_order = FALSE,
       !.basic = {BasicCpu(NAME_SH, 5), BasicCpu(NAME_SH, 7)},
       !.max_processes = {None}]

InitIter ==
    /\ InitProc
    /\ inputs = IterInputs
    /\ platform = "linux"
    /\ PROCESS_TREE = TRUE
    /\ os_parent \in TreeParents

NextIter == update \/ setmanualsortkey \/ Cycle

SpecIter == InitIter /\ [][NextIter]_vars

\* C14: in the tree being built and in the stored tree, getRessourceUsage of
\* a non-root node is its own value of its sort key plus the sum of that
\* key's values over every node below it, and getRessourceUsage of the root
\* is sys.maxsize.
C14_UsageIsOwnPlusDescendants ==
    \A nodes \in {tree_nodes, process_tree} : \A n \in DOMAIN nodes :
        getRessourceUsage(nodes, n) =
            IF n = ROOT THEN maxsize
            ELSE SumStats(nodes, Walk(nodes, n), nodes[n].sort_key)

\* the stored tree has node 1 with the two leaves 2 and 3 as children, their
\* values 5 and 7, and node 1's usage is its own value plus 12; the root's
\* usage is sys.maxsize
C14_Witness ==
    /\ DOMAIN process_tree = {ROOT, 1, 2, 3}
    /\ Range(process_tree[1].children) = {2, 3}
    /\ process_tree[2].children = <<>> /\ process_tree[3].children = <<>>
    /\ process_tree[1].sort_key = "cpu_percent"
    /\ {process_tree[2].stats["cpu_percent"], process_tree[3].stats["cpu_percent"]} = {5, 7}
    /\ getRessourceUsage(process_tree, 1) = process_tree[1].stats["cpu_percent"] + 12
    /\ getRessourceUsage(process_tree, ROOT) = maxsize

\* C20: the nodes the iteration of the stored tree has yielded are never the
\* root and never one node twice; once it is over they are every non-root
\* node, in pre-order: each node before everything below it, the children of
\* a node in the order of its children list as its lazy sort left it.
C20_IterationIsPreOrder ==
    pc = "tree_stats" =>
        /\ ROOT \notin Range(yielded)
        /\ \A i, j \in 1..Len(yielded) : yielded[i] = yielded[j] => i = j
        /\ tree_iter = <<>> =>
               /\ Range(yielded) = DOMAIN process_tree \ {ROOT}
               /\ yielded = Tail(Walk(process_tree, ROOT))
               /\ \A n \in DOMAIN process_tree : process_tree[n].children_sorted

\* an iteration is over that yielded node 1, then its child 3, whose usage
\* is 7 and which was attached after node 2, then node 2, whose usage is 5
C20_Witness ==
    /\ pc = "tree_stats"
    /\ tree_iter = <<>>
    /\ yielded = <<1, 3, 2>>
    /\ process_tree[1].children = <<3, 2>>
    /\ process_tree[2].stats["cpu_percent"] = 5
    /\ process_tree[3].stats["cpu_percent"] = 7
    /\ process_tree[1].sort_key = "cpu_percent"

(* ------------- the flat list and its sorted views --------------------- *)
ListInputs ==
    [PlainInputs EXCEPT
       !.live = {1..MaxLive},
       !.hash_order = FALSE,
       !.basic = {BasicCpu(NAME_SH, 5), BasicCpu(NAME_TOP, 5), BasicCpu(NAME_SH, 7)},
       !.io = {IoOk(1, 1), IoOk(2, 3)},
       !.manual_keys = {"None", "name"},
       !.auto_keys = {"cpu_percent", "io_counters"},
       !.max_processes = {None}]

InitList ==
    /\ InitProc
    /\ inputs = ListInputs
    /\ platform \in {"linux", "mac"}
    /\ PROCESS_TREE = FALSE
    /\ os_parent = FlatParents

NextList == update \/ GetSortList \/ CollectProc \/ CollectEnd \/ FlatStep \/ CleanCaches

SpecList == InitList /\ [][NextList]_vars

\* C15: a getsortlist(key) call that sorts (its key is not None, and every
\* record has I/O counters when the key is 'io_counters') stores and returns
\* the records of the flat list it found, each once, by ascending name when
\* the key is 'name' and otherwise by descending value of the key, which for
\* 'io_counters' is (read_now - read_prev) + (write_now - write_prev).
C15_SortedPermutation ==
    [][LET k == last_sort'.sortedby
           out == processlist'
           StrLeq(a, b) ==
               \E n \in 0..Len(a) :
                   /\ n <= Len(b)
                   /\ SubSeq(a, 1, n) = SubSeq(b, 1, n)
                   /\ \/ n = Len(a)
                      \/ n < Len(b) /\ LexKey(<<a[n + 1]>>, 1) < LexKey(<<b[n + 1]>>, 1)
           Rate(q) == (q["io_counters"][1] - q["io_counters"][3])
                        + (q["io_counters"][2] - q["io_counters"][4])
       IN  (/\ GetSortList
            /\ k # "None"
            /\ k = "io_counters" => \A q \in Range(processlist) : k \in DOMAIN q)
           => /\ exc' = "none"
              /\ Len(out) = Len(processlist)
              /\ Range(out) = Range(processlist)
              /\ \A i, j \in 1..Len(out) : i < j =>
                     /\ out[i] # out[j]
                     /\ k = "name" => StrLeq(out[i]["name"], out[j]["name"])
                     /\ k = "io_counters" => Rate(out[i]) >= Rate(out[j])
                     /\ k \notin {"name", "io_counters"} => out[i][k] >= out[j][k]]_vars

\* getsortlist('name') has moved a record: 'sh' now comes before 'top'
C15_Witness ==
    /\ last_sort.sortedby = "name"
    /\ last_sort.moved
    /\ Len(processlist) = 2
    /\ processlist[1]["name"] = NAME_SH
    /\ processlist[2]["name"] = NAME_TOP

\* C16: a getsortlist(key) call that follows a getsortlist call with the same
\* key, no update() in between, returns the list in the order it found it
\* and leaves the stored list as it was.
C16_ResortChangesNothing ==
    [][(GetSortList /\ last_sort'.repeated)
           => (processlist' = processlist /\ ~last_sort'.moved)]_vars

\* getsortlist('cpu_percent') was called twice in a row on two records of
\* equal cpu%
C16_Witness ==
    /\ last_sort.sortedby = "cpu_percent"
    /\ last_sort.repeated
    /\ Len(processlist) = 2
    /\ processlist[1]["cpu_percent"] = processlist[2]["cpu_percent"]

\* C17: a getsortlist('io_counters') call on a list with a record that has no
\* io_counters field raises nothing and stores the whole list in the order
\* getsortlist('cpu_percent') gives it: by descending cpu%, every record in
\* it once.
C17_IoSortFallsBackToCpu ==
    [][(/\ GetSortList
        /\ last_sort'.sortedby = "io_counters"
        /\ \E q \in Range(processlist) : "io_counters" \notin DOMAIN q)
           => /\ exc' = "none"
              /\ processlist' = getsortlist(processlist, "cpu_percent").list
              /\ Range(processlist') = Range(processlist)
              /\ Len(processlist') = Len(processlist)
              /\ \A i, j \in 1..Len(processlist') : i < j =>
                     processlist'[i]["cpu_percent"] >= processlist'[j]["cpu_percent"]]_vars

\* on OS X, where no record has I/O counters, getsortlist('io_counters') has
\* moved the record with cpu% 7 before the one with cpu% 5
C17_Witness ==
    /\ is_mac
    /\ last_sort.sortedby = "io_counters"
    /\ last_sort.moved
    /\ Len(processlist) = 2
    /\ "io_counters" \notin DOMAIN processlist[1]
    /\ processlist[1]["cpu_percent"] = 7
    /\ processlist[2]["cpu_percent"] = 5

(* ------------- which stats a record gets: cap, extended stats --------- *)
StatsInputs ==
    [PlainInputs EXCEPT
       !.live = {1..MaxLive},
       !.hash_order = FALSE,
       !.basic = {BasicCpu(NAME_SH, 7), BasicCpu(NAME_TOP, 5)},
       !.manual_keys = {"None", "name"},
       !.max_processes = {None, 1, 2}]

InitStats ==
    /\ InitProc
    /\ inputs = StatsInputs
    /\ platform = "linux"
    /\ PROCESS_TREE \in BOOLEAN
    /\ os_parent = ReverseParents

NextStats ==
    \/ update
    \/ set_max_processes
    \/ setmanualsortkey
    \/ enable_extended
    \/ disable_extended
    \/ Cycle
    \/ FlatStep

SpecStats == InitStats /\ [][NextStats]_vars

\* C18: in tree mode, a node the loop of an enabled update() has handled has
\* the standard tag and the elapsed time of the cycle in its record and no
\* extended tag; when the loop is over these are all the nodes but the root,
\* whether extended stats are enabled or not and whatever the cap.
C18_TreeNodesStandardAndStamped ==
    (PROCESS_TREE /\ pc = "tree_stats") =>
        /\ \A n \in Range(yielded) :
               /\ "standard_stats" \in DOMAIN process_tree[n].stats
               /\ process_tree[n].stats["standard_stats"] = TRUE
               /\ "time_since_update" \in DOMAIN process_tree[n].stats
               /\ process_tree[n].stats["time_since_update"] = time_since_update
        /\ \A n \in DOMAIN process_tree \ {ROOT} :
               "extended_stats" \notin DOMAIN process_tree[n].stats
        /\ tree_iter = <<>> => Range(yielded) = DOMAIN process_tree \ {ROOT}

\* the loop over a tree of two nodes is over, with extended stats enabled
\* and a cap of one row
C18_Witness ==
    /\ PROCESS_TREE
    /\ pc = "tree_stats"
    /\ tree_iter = <<>>
    /\ ~disable_extended_tag
    /\ max_processes = 1
    /\ DOMAIN process_tree = {ROOT, 1, 2}
    /\ process_tree[2].stats["time_since_update"] = 1

C21_IterationLeavesTreeSorted ==
    /\ exc # "TypeError"
    /\ (pc = "tree_stats" /\ tree_iter = <<>>) =>
           \A n \in DOMAIN process_tree :
               /\ process_tree[n].children_sorted
               /\ \A i, j \in 1..Len(process_tree[n].children) : i < j =>
                      LET a == process_tree[n].children[i]
                          b == process_tree[n].children[j]
                      IN  IF process_tree[a].sort_key = "name"
                          THEN getRessourceUsage(process_tree, a)
                                 <= getRessourceUsage(process_tree, b)
                          ELSE getRessourceUsage(process_tree, a)
                                 >= getRessourceUsage(process_tree, b)

(* ------------- setSorting on the nodes of the stored tree ------------- *)
NextSorting == update \/ SetSorting \/ Cycle \/ FlatStep

SpecSorting == InitStats /\ [][NextSorting]_vars

\* C22: a setSorting(key, reverse) call on a node stores key and reverse on
\* it, marks its children stale when key or reverse differs from what the
\* node had and leaves its freshness flag as it was when both are the same,
\* and changes nothing else in the tree: every other node keeps its sort
\* key, direction, freshness flag and children order.
C22_SetSortingTouchesOneNode ==
    [][SetSorting =>
         LET n == last_setsorting'.node
             old == process_tree[n]
             new == process_tree'[n]
         IN  /\ n \in DOMAIN process_tree
             /\ DOMAIN process_tree' = DOMAIN process_tree
             /\ new.sort_key = last_setsorting'.key
             /\ new.reverse_sorting = last_setsorting'.reverse
             /\ new.children_sorted =
                    IF old.sort_key = last_setsorting'.key
                         /\ old.reverse_sorting = last_setsorting'.reverse
                    THEN old.children_sorted ELSE FALSE
             /\ new.children = old.children
             /\ \A m \in DOMAIN process_tree \ {n} : process_tree'[m] = process_tree[m]]_vars

\* setSorting('cpu_percent', True), the pair node 2 had, was called on node 2
\* and left it fresh, after a call with another direction had marked its
\* child, node 1, stale; the root is still fresh
C22_Witness ==
    /\ last_setsorting = [node |-> 2, key |-> "cpu_percent", reverse |-> TRUE]
    /\ process_tree[2].children_sorted
    /\ process_tree[2].children = <<1>>
    /\ ~process_tree[1].children_sorted
    /\ ~process_tree[1].reverse_sorting
    /\ process_tree[ROOT].children_sorted

(* ------------- a process that vanishes during the standard fetch ------ *)
\* every way the standard-tier calls can meet a process that is gone:
\* username() raises it, username() is denied and uids() raises it, or
\* as_dict(status, nice, memory_info, cpu_times) raises it
VanishInputs ==
    [StatsInputs EXCEPT
       !.basic = {BasicCpu(NAME_SH, 7)},
       !.manual_keys = {"None"},
       !.username = {UserOk(USER_ROOT), UserGone, UserDenied("NoSuchProcess")},
       !.std = {StdOk(STATUS_RUNNING), StdGone}]

InitVanish ==
    /\ InitProc
    /\ inputs = VanishInputs
    /\ platform = "linux"
    /\ PROCESS_TREE \in BOOLEAN
    /\ os_parent = ReverseParents

SpecVanish == InitVanish /\ [][NextStats]_vars

\* C23: a standard-tier fetch on a process that vanished never ends the
\* cycle with NoSuchProcess and never drops or strips the record: every
\* record in the list being emitted (flat mode) or in the tree (tree mode)
\* has its mandatory fields, equal to the collected ones, and when the flat
\* loop without a cap is over every collected record was emitted.
C23_VanishedProcessKeepsRecord ==
    LET Mandatory == {"cpu_percent", "memory_percent", "name", "cmdline", "io_counters"}
        Intact(rec) == \A k \in Mandatory : k \in DOMAIN rec
        emitted == {processlist[i]["pid"] : i \in 1..Len(processlist)}
    IN  /\ exc # "NoSuchProcess"
        /\ ((~PROCESS_TREE) /\ pc = "flat_loop") =>
               /\ \A i \in 1..Len(processlist) :
                      /\ Intact(processlist[i])
                      /\ processlist[i]["pid"] \in DOMAIN processdict
                      /\ \A k \in Mandatory :
                             processlist[i][k] = processdict[processlist[i]["pid"]][k]
               /\ (processloop = <<>> /\ max_processes = None) =>
                      emitted = DOMAIN processdict
        /\ (PROCESS_TREE /\ pc = "tree_stats") =>
               \A n \in DOMAIN process_tree \ {ROOT} : Intact(process_tree[n].stats)

(* ------------- buildTree on a forest: termination and passes ---------- *)
\* buildTree called with records whose OS parent relation is static (it
\* never changes and every process stays alive) and acyclic, the parent each
\* record reports being absent (None), dead (NoSuchProcess) or a record
InitForest ==
    /\ InitTree
    /\ \A p \in DOMAIN processdict :
           os_parent[p] \in {None, RaisesNoSuchProcess} \cup DOMAIN processdict
    /\ \E rank \in [Pids -> Pids] :
           \A p \in DOMAIN processdict :
               os_parent[p] \in Pids => rank[os_parent[p]] < rank[p]

NextForest == FirstPass \/ NextPass \/ BuildReturn

\* one call of buildTree, whose loops keep running
FairSpecForest == InitForest /\ [][NextForest]_vars /\ WF_vars(NextForest)

\* C24: on such records buildTree returns with an empty deque, and a node
\* whose parent was attached in pass k is attached in pass k + 1 at the
\* latest: it is never still waiting in a later pass.
C24_ForestBuildInBoundedPasses ==
    /\ <>(pc = "returned" /\ nodes_to_add_last = <<>>)
    /\ [](\A c \in DOMAIN processdict :
             (os_parent[c] \in DOMAIN passes.attached) =>
                 IF c \in DOMAIN passes.attached
                 THEN passes.attached[c] <= passes.attached[os_parent[c]] + 1
                 ELSE passes.pass <= passes.attached[os_parent[c]] + 1)

\* the records 3, 2, 1 in this order, 1 the parent of 2 and 2 the parent of
\* 3: pid 1 was attached in the first pass, pid 2 in the next one and pid 3,
\* taken before pid 2 in that pass, in the one after it
C24_Witness ==
    /\ pc = "returned"
    /\ nodes_to_add_last = <<>>
    /\ passes.attached = (1 :> 0) @@ (2 :> 1) @@ (3 :> 2)
    /\ Edges(tree_nodes) = {<<ROOT, 1>>, <<1, 2>>, <<2, 3>>}

====
